---------------------------- MODULE Spec2Model ----------------------------
(***************************************************************************)
(* Model of sales_bot.py: a Telegram shop bot.  One group of handlers is   *)
(* registered on the Application in main(); an incoming update is given to *)
(* the first handler of the group whose check accepts it, and to none when *)
(* no check accepts it.  The ConversationHandler keeps one conversation    *)
(* state per (chat, user) key: a key that is absent is the idle session,   *)
(* a key mapped to ASK_AI_QUESTION is the session collecting AI questions. *)
(* Calls on the transport (answer, reply_text, edit_message_text,          *)
(* send_action) are taken to succeed; the AI provider may answer or raise. *)
(***************************************************************************)
EXTENDS Integers, Sequences, FiniteSets, TLC

\* ------------------------------------------------------------------ bounds
NumUsers == 2
MaxFailures == 2
\* process starts followed in the start-up specification
MaxStarts == 2
\* init_db runs that share one database file in the interleaving specification
NumInits == 2

Users == 1..NumUsers
Inits == 1..NumInits

\* ------------------------------------------------------- program constants
ASK_AI_QUESTION == 1
END == -1
\* the session's key is absent from the ConversationHandler's conversations
IDLE == 0
\* a handler that returns nothing
None == -2

\* what init_db inserts into an empty products table, in insertion order
SeedProducts == <<"ProX", "Ultra">>

\* ----------------------------------------------------------------- updates
CommandTexts == {"/start", "/help", "/done", "/other"}
QuestionTexts == {"q1", "q2"}
\* "" is a message without text: a photo, a sticker, an empty text
MessageTexts == CommandTexts \cup QuestionTexts \cup {""}
\* the callback data of the two buttons every keyboard of the bot carries
CallbackData == {"show_products", "ask_ai"}

Updates ==
    [user : Users, type : {"message"}, data : MessageTexts]
        \cup [user : Users, type : {"callback_query"}, data : CallbackData]

NoUpdate == [user |-> 0, type |-> "none", data |-> ""]

\* what the AI provider does with one generate_content call
AIOutcomes == {"answer", "raise"}

\* ------------------------------------------------------ outbound responses
\* one call on the transport: op is the call, text the message it carries,
\* menu whether the two-choice keyboard is attached, items the listed products
Out(op, text, menu, items) ==
    [op |-> op, text |-> text, menu |-> menu, items |-> items]

Answer == Out("answer", "", FALSE, <<>>)
Typing == Out("send_action", "typing", FALSE, <<>>)
Reply(text) == Out("reply", text, FALSE, <<>>)
ReplyMenu(text) == Out("reply", text, TRUE, <<>>)
Edit(text, items) == Out("edit", text, FALSE, items)

\* a handler's result: the value it returns, the transport calls it made in
\* order, and the number of generate_content calls it made
Result(ret, out, calls) == [ret |-> ret, out |-> out, calls |-> calls]

VARIABLES
    model,          \* lines 33-44: TRUE the Gemini model object, FALSE None
    products,       \* lines 56-73: rows of the products table, in order
    conversations,  \* lines 251-261: conv_handler's state of each session
    update,         \* the update processed last
    handler,        \* the handler that processed it, "none" when none did
    outbox,         \* the transport calls made while processing it
    aiCalls,        \* line 207: generate_content calls made processing it
    asked,          \* history: the user has pressed "ask AI" when IDLE
    failures,       \* history: failed AI requests since the session began
    lastRead,       \* history: how get_products ended for the last update
    pc,             \* the line the process has reached, "polling" at 268
    env,            \* lines 24-26: the environment the process started with
    origin,         \* history: the products table before the first start
    starts,         \* history: process starts so far
    okRuns,         \* history: init_db runs that ended without an exception
    ipc,            \* interleaved init_db runs: the line each has reached
    cnt,            \* interleaved init_db runs: each run's fetched COUNT(*)
    pending,        \* interleaved init_db runs: rows inserted, not committed
    lock            \* the run that holds the write lock of the file, or 0

botvars == <<model, conversations, update, handler, outbox, aiCalls, asked,
             failures, lastRead>>
bootvars == <<pc, env, origin, starts, okRuns>>
racevars == <<ipc, cnt, pending, lock>>
vars == <<products, botvars, bootvars, racevars>>


\* the texts the handlers send, named by what they say
Menu == "choose the next action"
Unavailable == "AI unavailable, check GOOGLE_API_KEY"
Ready == "ready for your questions, /done to finish"
Prompt == "please enter your question as text"
Apology == "error while processing your AI request, try again"
Closing == "AI dialog finished, what else can I help with"
NotUnderstood == "did not understand your command, use the buttons"
Greeting == "hello, I am the shop bot, choose an action"
HelpText == "use the commands /start, /help, or the buttons"
Listing == "here is what our shop has"
NoProducts == "the shop has no products yet"
AIText == "response.text"

\* ---------------------------------------------------------------- handlers
\* init_db without the COUNT(*) check: the rows are inserted on every run
init_db_nocount(rows, ok) == IF ok THEN rows \o SeedProducts ELSE rows

\* init_db without its second INSERT
init_db_onlyfirst(rows, ok) ==
    IF ok /\ Len(rows) = 0 THEN rows \o <<SeedProducts[1]>> ELSE rows

\* init_db as one run on a file nobody else writes: the table after it.  A
\* run that raises (ok = FALSE) has committed nothing: the INSERTs are in a
\* transaction that only conn.commit() ends.
init_db(rows, ok) ==
    IF ok /\ Len(rows) = 0 THEN rows \o SeedProducts ELSE rows

\* get_products: the rows of the table, or [] when the read raises
get_products(rows, readOk) == IF readOk THEN rows ELSE <<>>

start_command(upd) == Result(None, <<ReplyMenu(Greeting)>>, 0)

help_command(upd) == Result(None, <<Reply(HelpText)>>, 0)

\* show_products_callback that edits the message into a listing whatever
\* get_products returned: an empty table gives a heading with no products
show_products_callback_nocheck(upd, rows, readOk) ==
    Result(None,
           <<Answer, Edit(Listing, get_products(rows, readOk)),
             ReplyMenu(Menu)>>,
           0)

show_products_callback(upd, rows, readOk) ==
    LET found == get_products(rows, readOk)
    IN  IF found # <<>>
        THEN Result(None, <<Answer, Edit(Listing, found), ReplyMenu(Menu)>>, 0)
        ELSE Result(None, <<Answer, Edit(NoProducts, <<>>), ReplyMenu(Menu)>>, 0)

\* ask_ai_entry_point without the check that the model exists
ask_ai_entry_point_nocheck(upd, mdl) ==
    Result(ASK_AI_QUESTION, <<Answer, Reply(Ready), ReplyMenu(Menu)>>, 0)

\* ask_ai_entry_point that reports the missing model and then carries on
\* into the conversation instead of ending it
ask_ai_entry_point_noreturn(upd, mdl) ==
    IF ~mdl
    THEN Result(ASK_AI_QUESTION, <<Answer, Reply(Unavailable)>>, 0)
    ELSE Result(ASK_AI_QUESTION,
                <<Answer, Reply(Ready), ReplyMenu(Menu)>>, 0)

\* the update is a callback query in every dispatch main() sets up; the
\* branches for a text message or no message at all are kept as written
ask_ai_entry_point(upd, mdl) ==
    LET query == upd.type = "callback_query"
        acked == IF query THEN <<Answer>> ELSE <<>>
    IN  IF ~query /\ upd.type # "message"
        THEN Result(END, <<>>, 0)
        ELSE IF ~mdl
        THEN Result(END, acked \o <<Reply(Unavailable)>>, 0)
        ELSE Result(ASK_AI_QUESTION,
                    acked \o <<Reply(Ready)>>
                          \o (IF query THEN <<ReplyMenu(Menu)>> ELSE <<>>),
                    0)

\* handle_ai_question returning a state that conv_handler does not register
\* once the provider has raised
handle_ai_question_badstate(upd, mdl, outcome) ==
    IF upd.data = ""
    THEN Result(ASK_AI_QUESTION, <<Reply(Prompt)>>, 0)
    ELSE IF ~mdl
    THEN Result(END, <<Reply(Unavailable)>>, 0)
    ELSE IF outcome = "answer"
    THEN Result(ASK_AI_QUESTION, <<Typing, Reply(AIText)>>, 1)
    ELSE Result(ASK_AI_QUESTION + 1, <<Typing, Reply(Apology)>>, 1)

\* handle_ai_question ending the conversation once the provider has raised
handle_ai_question_ends(upd, mdl, outcome) ==
    IF upd.data = ""
    THEN Result(ASK_AI_QUESTION, <<Reply(Prompt)>>, 0)
    ELSE IF ~mdl
    THEN Result(END, <<Reply(Unavailable)>>, 0)
    ELSE IF outcome = "answer"
    THEN Result(ASK_AI_QUESTION, <<Typing, Reply(AIText)>>, 1)
    ELSE Result(END, <<Typing, Reply(Apology)>>, 1)

\* handle_ai_question calling the provider a second time after it has raised
handle_ai_question_retry(upd, mdl, outcome) ==
    IF upd.data = ""
    THEN Result(ASK_AI_QUESTION, <<Reply(Prompt)>>, 0)
    ELSE IF ~mdl
    THEN Result(END, <<Reply(Unavailable)>>, 0)
    ELSE IF outcome = "answer"
    THEN Result(ASK_AI_QUESTION, <<Typing, Reply(AIText)>>, 1)
    ELSE Result(ASK_AI_QUESTION, <<Typing, Typing, Reply(Apology)>>, 2)

\* handle_ai_question without the except clause: the provider's exception
\* leaves the handler before anything is sent or returned
handle_ai_question_uncaught(upd, mdl, outcome) ==
    IF upd.data = ""
    THEN Result(ASK_AI_QUESTION, <<Reply(Prompt)>>, 0)
    ELSE IF ~mdl
    THEN Result(END, <<Reply(Unavailable)>>, 0)
    ELSE IF outcome = "answer"
    THEN Result(ASK_AI_QUESTION, <<Typing, Reply(AIText)>>, 1)
    ELSE Result(None, <<Typing>>, 1)

handle_ai_question(upd, mdl, outcome) ==
    IF upd.data = ""
    THEN Result(ASK_AI_QUESTION, <<Reply(Prompt)>>, 0)
    ELSE IF ~mdl
    THEN Result(END, <<Reply(Unavailable)>>, 0)
    ELSE IF outcome = "answer"
    THEN Result(ASK_AI_QUESTION, <<Typing, Reply(AIText)>>, 1)
    ELSE Result(ASK_AI_QUESTION, <<Typing, Reply(Apology)>>, 1)

\* done_ai_dialog that says goodbye and stays in the conversation
done_ai_dialog_stays(upd) ==
    Result(ASK_AI_QUESTION, <<ReplyMenu(Closing)>>, 0)

done_ai_dialog(upd) == Result(END, <<ReplyMenu(Closing)>>, 0)

\* unknown_command without the reply_markup argument
unknown_command_nomenu(upd) == Result(None, <<Reply(NotUnderstood)>>, 0)

unknown_command(upd) == Result(None, <<ReplyMenu(NotUnderstood)>>, 0)

\* ---------------------------------------------------------------- dispatch
\* filters.TEXT: the message has a non-empty text
FilterTEXT(upd) == upd.type = "message" /\ upd.data # ""
\* filters.COMMAND: the text starts with a bot command
FilterCOMMAND(upd) == upd.type = "message" /\ upd.data \in CommandTexts
TextNotCommand(upd) == FilterTEXT(upd) /\ ~FilterCOMMAND(upd)
CommandHandler(upd, command) == upd.type = "message" /\ upd.data = command
CallbackQueryHandler(upd, pattern) ==
    upd.type = "callback_query" /\ upd.data = pattern

\* ConversationHandler.check_update for conv_handler: with no conversation
\* only the entry points are tried; inside one, the handlers of its state and
\* then the fallbacks.  "none" when nothing accepts the update.
conv_handler(upd, state) ==
    IF state = IDLE
    THEN IF CallbackQueryHandler(upd, "ask_ai")
         THEN "ask_ai_entry_point" ELSE "none"
    ELSE IF state = ASK_AI_QUESTION /\ TextNotCommand(upd)
    THEN "handle_ai_question"
    ELSE IF state = ASK_AI_QUESTION /\ CommandHandler(upd, "/done")
    THEN "done_ai_dialog"
    ELSE IF CommandHandler(upd, "/done")
    THEN "done_ai_dialog"
    ELSE "none"

\* main() adding the unknown_command MessageHandler before conv_handler
Dispatch_unknownfirst(upd, state) ==
    IF CommandHandler(upd, "/start") THEN "start_command"
    ELSE IF CommandHandler(upd, "/help") THEN "help_command"
    ELSE IF CallbackQueryHandler(upd, "show_products")
    THEN "show_products_callback"
    ELSE IF TextNotCommand(upd) THEN "unknown_command"
    ELSE conv_handler(upd, state)

\* main() adding conv_handler first, with handle_ai_question behind
\* filters.TEXT alone: inside a conversation commands are taken as questions
Dispatch_convfirst(upd, state) ==
    IF state = ASK_AI_QUESTION /\ CommandHandler(upd, "/done")
    THEN "done_ai_dialog"
    ELSE IF state = ASK_AI_QUESTION /\ FilterTEXT(upd)
    THEN "handle_ai_question"
    ELSE IF CommandHandler(upd, "/start") THEN "start_command"
    ELSE IF CommandHandler(upd, "/help") THEN "help_command"
    ELSE IF CallbackQueryHandler(upd, "show_products")
    THEN "show_products_callback"
    ELSE IF conv_handler(upd, state) # "none" THEN conv_handler(upd, state)
    ELSE IF TextNotCommand(upd) THEN "unknown_command"
    ELSE "none"

\* Application.process_update over the handlers main() adds, in order: the
\* first handler of the group that accepts the update handles it
Dispatch(upd, state) ==
    IF CommandHandler(upd, "/start") THEN "start_command"
    ELSE IF CommandHandler(upd, "/help") THEN "help_command"
    ELSE IF CallbackQueryHandler(upd, "show_products")
    THEN "show_products_callback"
    ELSE IF conv_handler(upd, state) # "none" THEN conv_handler(upd, state)
    ELSE IF TextNotCommand(upd) THEN "unknown_command"
    ELSE "none"

\* ConversationHandler._update_state: END drops the key, a handler that
\* returns nothing leaves it, any other value is stored
UpdateState(state, ret) ==
    IF ret = END THEN IDLE
    ELSE IF ret = None THEN state
    ELSE ret

\* ----------------------------------------------------------- specification
\* The state when run_polling starts: the model object exists or is None,
\* the products table holds the seed rows or could not be filled, and no
\* conversation has been entered.
Init ==
    /\ model \in BOOLEAN
    /\ products \in {<<>>, SeedProducts}
    /\ conversations = [u \in Users |-> IDLE]
    /\ update = NoUpdate
    /\ handler = "init"
    /\ outbox = <<>>
    /\ aiCalls = 0
    /\ asked = [u \in Users |-> FALSE]
    /\ failures = [u \in Users |-> 0]
    /\ lastRead = "none"
    /\ pc = "polling"
    /\ env = [token |-> "set",
              key |-> IF model THEN "set" ELSE "absent",
              admin |-> "absent"]
    /\ origin = products
    /\ starts = 1
    /\ okRuns = 0
    /\ ipc = [p \in Inits |-> "done"]
    /\ cnt = [p \in Inits |-> 0]
    /\ pending = [p \in Inits |-> <<>>]
    /\ lock = 0

Saturate(n) == IF n < MaxFailures THEN n + 1 ELSE MaxFailures

\* Process with one conversation state for the whole bot instead of one per
\* user: the handler's return value is stored for every session
Process_shared(upd, h, res, inConv) ==
    LET u == upd.user
        state == IF inConv
                 THEN UpdateState(conversations[u], res.ret)
                 ELSE conversations[u]
        failed == h = "handle_ai_question" /\ res.calls > 0
                    /\ res.out[Len(res.out)].text = Apology
    IN  /\ update' = upd
        /\ handler' = h
        /\ outbox' = res.out
        /\ aiCalls' = res.calls
        /\ conversations' = [v \in Users |-> state]
        /\ asked' = [asked EXCEPT ![u] = @ \/ h = "ask_ai_entry_point"]
        /\ failures' = [failures EXCEPT
                          ![u] = IF failed THEN Saturate(@)
                                 ELSE IF state = IDLE THEN 0 ELSE @]
        /\ UNCHANGED <<model, products, bootvars, racevars>>

\* the bookkeeping every dispatched update shares: h handled upd with result
\* res; inConv says h is a handler of conv_handler, whose return value then
\* drives the session's conversation state
Process(upd, h, res, inConv) ==
    LET u == upd.user
        state == IF inConv
                 THEN UpdateState(conversations[u], res.ret)
                 ELSE conversations[u]
        failed == h = "handle_ai_question" /\ res.calls > 0
                    /\ res.out[Len(res.out)].text = Apology
    IN  /\ update' = upd
        /\ handler' = h
        /\ outbox' = res.out
        /\ aiCalls' = res.calls
        /\ conversations' = [conversations EXCEPT ![u] = state]
        /\ asked' = [asked EXCEPT ![u] = @ \/ h = "ask_ai_entry_point"]
        /\ failures' = [failures EXCEPT
                          ![u] = IF failed THEN Saturate(@)
                                 ELSE IF state = IDLE THEN 0 ELSE @]
        /\ UNCHANGED <<model, products, bootvars, racevars>>

Arrives(u, upd, h) ==
    /\ upd.user = u
    /\ Dispatch(upd, conversations[u]) = h

StartCommand(u) ==
    \E upd \in Updates :
        /\ Arrives(u, upd, "start_command")
        /\ Process(upd, "start_command", start_command(upd), FALSE)
        /\ lastRead' = "none"

HelpCommand(u) ==
    \E upd \in Updates :
        /\ Arrives(u, upd, "help_command")
        /\ Process(upd, "help_command", help_command(upd), FALSE)
        /\ lastRead' = "none"

ShowProductsCallback(u) ==
    \E upd \in Updates, readOk \in BOOLEAN :
        /\ Arrives(u, upd, "show_products_callback")
        /\ Process(upd, "show_products_callback",
                   show_products_callback(upd, products, readOk), FALSE)
        /\ lastRead' = IF readOk THEN "ok" ELSE "failed"

AskAiEntryPoint(u) ==
    \E upd \in Updates :
        /\ Arrives(u, upd, "ask_ai_entry_point")
        /\ Process(upd, "ask_ai_entry_point",
                   ask_ai_entry_point(upd, model), TRUE)
        /\ lastRead' = "none"

HandleAiQuestion(u) ==
    \E upd \in Updates, outcome \in AIOutcomes :
        /\ Arrives(u, upd, "handle_ai_question")
        /\ Process(upd, "handle_ai_question",
                   handle_ai_question(upd, model, outcome), TRUE)
        /\ lastRead' = "none"

DoneAiDialog(u) ==
    \E upd \in Updates :
        /\ Arrives(u, upd, "done_ai_dialog")
        /\ Process(upd, "done_ai_dialog", done_ai_dialog(upd), TRUE)
        /\ lastRead' = "none"

UnknownCommand(u) ==
    \E upd \in Updates :
        /\ Arrives(u, upd, "unknown_command")
        /\ Process(upd, "unknown_command", unknown_command(upd), FALSE)
        /\ lastRead' = "none"

\* no handler of the group accepts the update: nothing is called
NotHandled(u) ==
    \E upd \in Updates :
        /\ Arrives(u, upd, "none")
        /\ Process(upd, "none", Result(None, <<>>, 0), FALSE)
        /\ lastRead' = "none"

Next ==
    \E u \in Users :
        \/ StartCommand(u)
        \/ HelpCommand(u)
        \/ ShowProductsCallback(u)
        \/ AskAiEntryPoint(u)
        \/ HandleAiQuestion(u)
        \/ DoneAiDialog(u)
        \/ UnknownCommand(u)
        \/ NotHandled(u)

Spec == Init /\ [][Next]_vars

\* ------------------------------------------------- start-up specification
\* The process from its first line: the environment is read, the token is
\* checked, the model is set up, main() runs init_db and starts polling.  The
\* products table is a file that outlives the process; a stopped process may
\* be started again with another environment.
Envs ==
    [token : {"set", "absent"},
     key : {"set", "absent"},
     admin : {"absent", "number", "garbage"}]

Halted == {"exited", "crashed"}

\* the in-memory state of a process that has just been started
Fresh ==
    /\ model = FALSE
    /\ conversations = [u \in Users |-> IDLE]
    /\ update = NoUpdate
    /\ handler = "init"
    /\ outbox = <<>>
    /\ aiCalls = 0
    /\ asked = [u \in Users |-> FALSE]
    /\ failures = [u \in Users |-> 0]
    /\ lastRead = "none"

InitProcess ==
    /\ Fresh
    /\ products \in {<<>>, <<"Other">>}
    /\ origin = products
    /\ env \in Envs
    /\ pc = "import"
    /\ starts = 1
    /\ okRuns = 0
    /\ ipc = [p \in Inits |-> "done"]
    /\ cnt = [p \in Inits |-> 0]
    /\ pending = [p \in Inits |-> <<>>]
    /\ lock = 0

Startup(from, to) ==
    /\ pc = from
    /\ pc' = to
    /\ UNCHANGED <<env, origin, starts, racevars>>

\* lines 24-26: int() of an ADMIN_TELEGRAM_ID that is no number raises
ReadEnvironment ==
    /\ Startup("import",
               IF env.admin = "garbage" THEN "crashed" ELSE "check_token")
    /\ UNCHANGED <<products, botvars, okRuns>>

\* lines 29-31
CheckToken ==
    /\ Startup("check_token",
               IF env.token = "absent" THEN "exited" ELSE "init_ai")
    /\ UNCHANGED <<products, botvars, okRuns>>

\* lines 34-44: the model exists when the key is set and neither
\* genai.configure nor genai.GenerativeModel raises
InitAI ==
    \E raises \in BOOLEAN :
        /\ Startup("init_ai", "main")
        /\ model' = (env.key = "set" /\ ~raises)
        /\ UNCHANGED <<products, conversations, update, handler, outbox,
                       aiCalls, asked, failures, lastRead, okRuns>>

\* line 239
RunInitDb ==
    \E ok \in BOOLEAN :
        /\ Startup("main", "build")
        /\ products' = init_db(products, ok)
        /\ okRuns' = IF ok THEN okRuns + 1 ELSE okRuns
        /\ UNCHANGED botvars

\* lines 241-268
RunPolling ==
    /\ Startup("build", "polling")
    /\ UNCHANGED <<products, botvars, okRuns>>

Polling ==
    /\ pc = "polling"
    /\ Next

\* the process is stopped, or has stopped, and is started again
Restart ==
    /\ pc \in Halted \cup {"polling"}
    /\ starts < MaxStarts
    /\ starts' = starts + 1
    /\ pc' = "import"
    /\ env' \in Envs
    /\ model' = FALSE
    /\ conversations' = [u \in Users |-> IDLE]
    /\ update' = NoUpdate
    /\ handler' = "init"
    /\ outbox' = <<>>
    /\ aiCalls' = 0
    /\ asked' = [u \in Users |-> FALSE]
    /\ failures' = [u \in Users |-> 0]
    /\ lastRead' = "none"
    /\ UNCHANGED <<products, origin, okRuns, racevars>>

NextProcess ==
    \/ ReadEnvironment
    \/ CheckToken
    \/ InitAI
    \/ RunInitDb
    \/ RunPolling
    \/ Polling
    \/ Restart

SpecProcess == InitProcess /\ [][NextProcess]_vars

\* ---------------------------------------------- interleaving specification
\* Several processes are started on one database file and their init_db runs
\* interleave statement by statement.  SELECT reads what is committed and
\* holds no lock once fetched; the first INSERT of a run opens a transaction
\* and takes the file's write lock, which conn.commit() releases; a run that
\* finds the lock taken waits, and raises when its wait times out.
InitRace ==
    /\ Fresh
    /\ products \in {<<>>, <<"Other">>, SeedProducts}
    /\ origin = products
    /\ env = [token |-> "set", key |-> "absent", admin |-> "absent"]
    /\ pc = "main"
    /\ starts = NumInits
    /\ okRuns = 0
    /\ ipc = [p \in Inits |-> "connect"]
    /\ cnt = [p \in Inits |-> 0]
    /\ pending = [p \in Inits |-> <<>>]
    /\ lock = 0

Goes(p, from, to) ==
    /\ ipc[p] = from
    /\ ipc' = [ipc EXCEPT ![p] = to]
    /\ UNCHANGED <<botvars, pc, env, origin, starts>>

\* lines 54-55
Connect(p) ==
    /\ Goes(p, "connect", "create")
    /\ UNCHANGED <<products, okRuns, cnt, pending, lock>>

\* lines 56-64: CREATE TABLE IF NOT EXISTS leaves an existing table alone
CreateTable(p) ==
    /\ Goes(p, "create", "count")
    /\ UNCHANGED <<products, okRuns, cnt, pending, lock>>

\* lines 66-67: SELECT COUNT(*) and the test of what it fetched
Count(p) ==
    /\ Goes(p, "count", IF Len(products) = 0 THEN "insert1" ELSE "close")
    /\ cnt' = [cnt EXCEPT ![p] = Len(products)]
    /\ UNCHANGED <<products, okRuns, pending, lock>>

\* lines 69-70
Insert1(p) ==
    /\ lock = 0
    /\ Goes(p, "insert1", "insert2")
    /\ lock' = p
    /\ pending' = [pending EXCEPT ![p] = <<SeedProducts[1]>>]
    /\ UNCHANGED <<products, okRuns, cnt>>

\* lines 69-70 and 77-78: "database is locked" after the wait
Locked(p) ==
    /\ lock \notin {0, p}
    /\ Goes(p, "insert1", "failed")
    /\ UNCHANGED <<products, okRuns, cnt, pending, lock>>

\* lines 71-72
Insert2(p) ==
    /\ Goes(p, "insert2", "commit")
    /\ pending' = [pending EXCEPT ![p] = Append(@, SeedProducts[2])]
    /\ UNCHANGED <<products, okRuns, cnt, lock>>

\* line 73
Commit(p) ==
    /\ Goes(p, "commit", "close")
    /\ products' = products \o pending[p]
    /\ pending' = [pending EXCEPT ![p] = <<>>]
    /\ lock' = 0
    /\ UNCHANGED <<okRuns, cnt>>

\* lines 75-76
Close(p) ==
    /\ Goes(p, "close", "done")
    /\ okRuns' = okRuns + 1
    /\ UNCHANGED <<products, cnt, pending, lock>>

NextRace ==
    \E p \in Inits :
        \/ Connect(p)
        \/ CreateTable(p)
        \/ Count(p)
        \/ Insert1(p)
        \/ Locked(p)
        \/ Insert2(p)
        \/ Commit(p)
        \/ Close(p)

SpecRace == InitRace /\ [][NextRace]_vars

\* ------------------------------------------------------------------ claims
IsMessage(call) == call.op \in {"reply", "edit"}
IsAck(call) == call.op = "answer"
Messages(out) == SelectSeq(out, IsMessage)
Acks(out) == SelectSeq(out, IsAck)

Press(u, data) == [user |-> u, type |-> "callback_query", data |-> data]
Text(u, data) == [user |-> u, type |-> "message", data |-> data]
IsQuestion(upd) == upd.type = "message" /\ upd.data \in QuestionTexts

\* C1: in every reachable state every session's conversation state is IDLE or
\* ASK_AI_QUESTION (AWAITING_AI_QUESTION); no update puts it anywhere else.
C1_StateInEnum ==
    \A u \in Users : conversations[u] \in {IDLE, ASK_AI_QUESTION}

C1_Witness ==
    /\ handler = "handle_ai_question"
    /\ conversations[update.user] = ASK_AI_QUESTION
    /\ \E u \in Users : conversations[u] = IDLE /\ asked[u]

\* C2: a session's state changes only from IDLE to ASK_AI_QUESTION on a press
\* of "ask AI" by that user while the model is configured, and only from
\* ASK_AI_QUESTION to IDLE on that user's /done; every other update leaves it.
C2_OnlyDefinedEdges ==
    [][\A u \in Users :
          conversations'[u] # conversations[u] =>
              \/ /\ conversations[u] = IDLE
                 /\ conversations'[u] = ASK_AI_QUESTION
                 /\ update' = Press(u, "ask_ai")
                 /\ model
              \/ /\ conversations[u] = ASK_AI_QUESTION
                 /\ conversations'[u] = IDLE
                 /\ update' = Text(u, "/done")]_vars

C2_Witness ==
    /\ handler = "done_ai_dialog"
    /\ conversations[update.user] = IDLE
    /\ failures[update.user] = 0
    /\ \E u \in Users : conversations[u] = ASK_AI_QUESTION

C4_EveryPressAcknowledged ==
    update.type = "callback_query" => Len(Acks(outbox)) >= 1

\* C5 (as stated): /done sent by a session that is IDLE leaves it IDLE and is
\* answered with the closing message.
C5_DoneWhenIdleCloses ==
    [][\A u \in Users :
          (conversations[u] = IDLE /\ update' = Text(u, "/done")) =>
              /\ conversations'[u] = IDLE
              /\ outbox' = <<ReplyMenu(Closing)>>]_vars

\* C6: without the model, a press of "ask AI" from IDLE is answered with the
\* unavailability message, leaves the session IDLE and calls no AI.
C6_UnconfiguredEntry ==
    [][\A u \in Users :
          (~model /\ conversations[u] = IDLE /\ update' = Press(u, "ask_ai")) =>
              /\ Messages(outbox') = <<Reply(Unavailable)>>
              /\ conversations'[u] = IDLE
              /\ aiCalls' = 0]_vars

C6_Witness ==
    /\ ~model
    /\ handler = "ask_ai_entry_point"
    /\ update = Press(update.user, "ask_ai")
    /\ conversations[update.user] = IDLE

\* C7 (as stated): without the model, once a user has pressed "ask AI", each
\* question the user sends is answered with the unavailability message, the
\* session is IDLE and no AI call is made.
C7_QuestionsGetUnavailable ==
    (~model /\ IsQuestion(update) /\ asked[update.user]) =>
        /\ Messages(outbox) = <<Reply(Unavailable)>>
        /\ conversations[update.user] = IDLE
        /\ aiCalls = 0

\* C7 (amended): without the model, once a user has pressed "ask AI", each
\* question the user sends is answered by the unknown-input fallback (its
\* message with the two-choice menu), the session is IDLE and no AI call is
\* made; the unavailability message recurs on each further press of "ask AI".
C7_QuestionsGetFallback ==
    \A u \in Users :
        (~model /\ asked[u]) =>
            /\ conversations[u] = IDLE
            /\ update.user = u =>
                   /\ aiCalls = 0
                   /\ IsQuestion(update) =>
                          /\ handler = "unknown_command"
                          /\ outbox = <<ReplyMenu(NotUnderstood)>>
                   /\ update = Press(u, "ask_ai") =>
                          Messages(outbox) = <<Reply(Unavailable)>>

C7_Witness ==
    /\ ~model
    /\ IsQuestion(update)
    /\ handler = "unknown_command"
    /\ asked[update.user]

\* C8: for a session in ASK_AI_QUESTION each non-empty free text causes exactly
\* one generate_content call, exactly one outbound message, which is the
\* answer or the apology, and leaves the session in ASK_AI_QUESTION.
C8_OneCallOneMessage ==
    [][\A u \in Users :
          (conversations[u] = ASK_AI_QUESTION /\ update'.user = u
              /\ IsQuestion(update')) =>
              /\ aiCalls' = 1
              /\ \/ Messages(outbox') = <<Reply(AIText)>>
                 \/ Messages(outbox') = <<Reply(Apology)>>
              /\ conversations'[u] = ASK_AI_QUESTION]_vars

C8_Witness ==
    /\ handler = "handle_ai_question"
    /\ IsQuestion(update)
    /\ aiCalls = 1
    /\ Messages(outbox) = <<Reply(AIText)>>
    /\ conversations[update.user] = ASK_AI_QUESTION

\* C9: a session with any number of failed AI requests behind it is still in
\* ASK_AI_QUESTION, leaves it only on its own /done, and its next non-empty
\* question is still handed to generate_content.
C9_FailureIsTransient ==
    [][\A u \in Users :
          /\ failures'[u] > 0 => conversations'[u] = ASK_AI_QUESTION
          /\ failures[u] > 0 =>
               /\ conversations'[u] = IDLE => update' = Text(u, "/done")
               /\ (update'.user = u /\ IsQuestion(update')) =>
                      /\ handler' = "handle_ai_question"
                      /\ aiCalls' = 1]_vars

C9_Witness ==
    /\ handler = "handle_ai_question"
    /\ failures[update.user] = MaxFailures
    /\ aiCalls = 1
    /\ Messages(outbox) = <<Reply(AIText)>>

\* C10 (as stated): for a session in ASK_AI_QUESTION a message without text
\* is answered with the validation prompt, calls no AI and leaves the session
\* in ASK_AI_QUESTION.
C10_NonTextGetsPrompt ==
    [][\A u \in Users :
          (conversations[u] = ASK_AI_QUESTION /\ update' = Text(u, "")) =>
              /\ outbox' = <<Reply(Prompt)>>
              /\ aiCalls' = 0
              /\ conversations'[u] = ASK_AI_QUESTION]_vars

\* C11: a free text that is no command is routed by the sender's session
\* state alone, to exactly one handler: in ASK_AI_QUESTION to
\* handle_ai_question and never to unknown_command; in IDLE to
\* unknown_command, which replies with its message and the two-choice menu,
\* calls no AI and leaves the session IDLE.
C11_FreeTextRouting ==
    [][\A u \in Users :
          (update'.user = u /\ IsQuestion(update')) =>
              /\ conversations[u] = ASK_AI_QUESTION =>
                     handler' = "handle_ai_question"
              /\ conversations[u] = IDLE =>
                     /\ handler' = "unknown_command"
                     /\ outbox' = <<ReplyMenu(NotUnderstood)>>
                     /\ aiCalls' = 0
                     /\ conversations'[u] = IDLE]_vars

C11_Witness ==
    /\ handler = "handle_ai_question"
    /\ IsQuestion(update)
    /\ conversations[update.user] = ASK_AI_QUESTION
    /\ \E v \in Users : v # update.user /\ conversations[v] = IDLE

\* C12: /done from a session in ASK_AI_QUESTION is answered with the closing
\* message and resets the session to IDLE; after that the session's free text
\* is handled by unknown_command without an AI call, and the session enters
\* ASK_AI_QUESTION again only on a press of "ask AI".
C12_DoneEndsDialog ==
    [][\A u \in Users :
          /\ (conversations[u] = ASK_AI_QUESTION
                 /\ update' = Text(u, "/done")) =>
                 /\ outbox' = <<ReplyMenu(Closing)>>
                 /\ conversations'[u] = IDLE
          /\ (model /\ asked[u] /\ conversations[u] = IDLE) =>
                 /\ (update'.user = u /\ IsQuestion(update')) =>
                        /\ handler' = "unknown_command"
                        /\ aiCalls' = 0
                 /\ conversations'[u] = ASK_AI_QUESTION =>
                        update' = Press(u, "ask_ai")]_vars

C12_Witness ==
    /\ model
    /\ handler = "unknown_command"
    /\ IsQuestion(update)
    /\ asked[update.user]
    /\ conversations[update.user] = IDLE

\* C13: an update sent by one user never changes the conversation state of
\* another user's session.
C13_SessionsAreSeparate ==
    [][\A u \in Users :
          update'.user # u => conversations'[u] = conversations[u]]_vars

C13_Witness ==
    /\ handler = "unknown_command"
    /\ conversations[update.user] = IDLE
    /\ \E v \in Users :
          v # update.user /\ conversations[v] = ASK_AI_QUESTION
                          /\ failures[v] > 0

\* C14: a press of "browse catalog" whose read of the store raised and one
\* that read an empty table get the same calls: the acknowledgment, the
\* "no products" text and then the two-choice menu; never a listing.
C14_EmptyAndErrorAlike ==
    (handler = "show_products_callback"
        /\ (lastRead = "failed" \/ products = <<>>)) =>
        outbox = <<Answer, Edit(NoProducts, <<>>), ReplyMenu(Menu)>>

C14_Witness ==
    /\ handler = "show_products_callback"
    /\ lastRead = "failed"
    /\ products # <<>>
    /\ outbox = <<Answer, Edit(NoProducts, <<>>), ReplyMenu(Menu)>>

\* C19: a session is in ASK_AI_QUESTION only when the model exists; so
\* generate_content is never called without a model and handle_ai_question
\* never sends the unavailability message nor ends the conversation.
C19_AwaitingOnlyWithModel ==
    /\ \A u \in Users : conversations[u] = ASK_AI_QUESTION => model
    /\ aiCalls > 0 => model
    /\ handler = "handle_ai_question" =>
           /\ Messages(outbox) # <<Reply(Unavailable)>>
           /\ conversations[update.user] = ASK_AI_QUESTION

C19_Witness ==
    /\ model
    /\ handler = "handle_ai_question"
    /\ aiCalls = 1
    /\ \A u \in Users : conversations[u] = ASK_AI_QUESTION

\* C20: /start, /help and a press of "browse catalog" from a session in
\* ASK_AI_QUESTION are handled by start_command, help_command and
\* show_products_callback and leave the session in ASK_AI_QUESTION; the
\* session's next free text is still handled by handle_ai_question, with a
\* generate_content call.
Responder(upd) ==
    IF upd = Text(upd.user, "/start") THEN "start_command"
    ELSE IF upd = Text(upd.user, "/help") THEN "help_command"
    ELSE IF upd = Press(upd.user, "show_products")
    THEN "show_products_callback"
    ELSE "none"

C20_RespondersKeepDialog ==
    [][\A u \in Users :
          /\ (conversations[u] = ASK_AI_QUESTION /\ update'.user = u
                 /\ Responder(update') # "none") =>
                 /\ handler' = Responder(update')
                 /\ conversations'[u] = ASK_AI_QUESTION
          /\ (conversations[u] = ASK_AI_QUESTION /\ update.user = u
                 /\ Responder(update) # "none"
                 /\ update'.user = u /\ IsQuestion(update')) =>
                 /\ handler' = "handle_ai_question"
                 /\ aiCalls' = 1]_vars

C20_Witness ==
    /\ handler = "start_command"
    /\ conversations[update.user] = ASK_AI_QUESTION

\* C15: however many times init_db has run, a table that was empty before
\* the first run holds exactly the seed rows, each once, as soon as one run
\* has ended without an exception (and is empty until then); a table that
\* held a row before the first run is left as it was; and no run changes a
\* table that holds a row.
C15_SeedingIdempotent ==
    [][/\ origin = <<>> =>
              products' = IF okRuns' > 0 THEN SeedProducts ELSE <<>>
       /\ origin # <<>> => products' = origin
       /\ products # <<>> => products' = products]_vars

C15_Witness ==
    /\ origin = <<>>
    /\ starts = MaxStarts
    /\ okRuns = MaxStarts
    /\ pc = "build"
    /\ products = SeedProducts

\* C16: once init_db has seeded a table that was empty, a press of "browse
\* catalog" whose read succeeds is answered with the listing of exactly the
\* seed rows, each once and in insertion order, followed by the menu.
C16_ListingAfterSeeding ==
    (origin = <<>> /\ okRuns > 0 /\ handler = "show_products_callback"
        /\ lastRead = "ok") =>
        /\ get_products(products, TRUE) = SeedProducts
        /\ outbox = <<Answer, Edit(Listing, SeedProducts), ReplyMenu(Menu)>>

C16_Witness ==
    /\ origin = <<>>
    /\ okRuns = 1
    /\ starts = 1
    /\ handler = "show_products_callback"
    /\ lastRead = "ok"
    /\ outbox[2].items = SeedProducts

\* C17 (as stated): the process reaches polling exactly when the token is
\* set: without the token it halts before init_db runs and before any update
\* is dispatched, and with the token nothing else (the AI key, the
\* administrator id, a failing init_db) makes it halt.
C17_PollingIffToken ==
    /\ pc = "polling" => env.token = "set"
    /\ env.token = "absent" => pc \in {"import", "check_token"} \cup Halted
    /\ env.token = "absent" => handler = "init"
    /\ pc \in Halted => env.token = "absent"

\* C18 (as stated): when init_db runs interleave on a table that was empty,
\* then once every run has ended the table holds each seed row exactly once.
C18_InterleavedSeedsOnce ==
    (origin = <<>> /\ \A p \in Inits : ipc[p] \in {"done", "failed"}) =>
        products = SeedProducts

============================================================================
